---- MODULE Spec2Model ----
(***************************************************************************)
(* Gap detection and backfill of ha-linky: runFill (src/index.ts) driving  *)
(* the async generator HomeAssistantClient.missingDayRanges (ha.ts) over   *)
(* one websocket connection to the Home Assistant statistics store.        *)
(*                                                                         *)
(* Time is counted in whole days: day d stands for the instant "midnight   *)
(* of day d", the only instants the scanner ever builds.  Every await of   *)
(* the code is a request put on the wire (outbox), handled by the store    *)
(* (StoreAnswer / StoreError) and a response (inbox) that resumes the      *)
(* client in the handler registered by sendMessage.                        *)
(***************************************************************************)
EXTENDS Integers, Sequences, FiniteSets, TLC

\* ------------------------------------------------------------------ bounds
\* "today" (dayjs().startOf('day')); the store may hold points for 0..Today.
Today == 4
\* Length in days of one block of findOldestStatistic (7 in the source).
BlockDays == 2
\* Number of blocks findOldestStatistic walks (3 * 51 + 1 in the source).
NumBlocks == 2

Days == 0 .. Today

\* A nullable number of the code: null is <<>>, the number v is <<v>>.
Null == <<>>
Some(v) == <<v>>
\* JavaScript truthiness of a nullable number: null and 0 are falsy.
Truthy(x) == x # Null /\ x[1] # 0
\* JavaScript arithmetic on a nullable number: null counts as 0.
ToNumber(x) == IF x = Null THEN 0 ELSE x[1]

VARIABLES
  energy,     \* store: the energy series, day -> nullable cumulative sum
  cost,       \* store: the cost series, day -> nullable cumulative sum
  zeroWidth,  \* store: its answer to a window with start_time = end_time
  startDay,   \* runFill argument: Null or Some(day)
  rawData,    \* runFill argument: readings [date, value], oldest first
  costs,      \* config.costs: Null or Some([price, start_date])
  conn,       \* state of the websocket connection
  outbox,     \* requests sent by the client, not yet handled by the store
  inbox,      \* responses sent by the store, not yet delivered
  messageId,  \* HomeAssistantClient.messageId (relative to its first value)
  sent,       \* history: every request the client has issued, in order, with
              \* the number of holes yielded before it
  pc,         \* the suspension point the client is at
  i,          \* findOldestStatistic: loop index
  cursor,     \* missingDayRanges: cursor
  holeStart,  \* missingDayRanges: holeStart
  nxtStart,   \* missingDayRanges: nxtPoints[0].start
  sum,        \* missingDayRanges: sum (result of the first fetchLastSum)
  holes,      \* history: the holes yielded so far; the last is runFill's hole
  emitted,    \* history: what the store held when each hole was yielded
  holeStats,  \* runFill: holeStats
  costStats   \* runFill: costStats

inputs == <<zeroWidth, startDay, rawData, costs>>
store == <<energy, cost>>
wire == <<conn, outbox, inbox, messageId, sent>>
scan == <<i, cursor, holeStart, nxtStart, sum, holes, emitted>>
fill == <<holeStats, costStats>>
vars == <<inputs, store, wire, scan, fill, pc>>

\* ------------------------------------------------------------- the store
\* recorder/statistics_during_period with period = day: the points of the
\* series whose start lies in [s, e), oldest first.  For s = e the client
\* code does not fix the answer (line 270 sends the cursor itself as
\* end_time, serialised differently from start_time): the store either
\* answers with nothing or with the point of day s.
RECURSIVE PointsFrom(_, _, _)
PointsFrom(series, s, e) ==
  IF s >= e THEN <<>>
  ELSE IF s \in Days /\ series[s] # Null
       THEN <<[start |-> s, sum |-> series[s][1]]>> \o PointsFrom(series, s + 1, e)
       ELSE PointsFrom(series, s + 1, e)

StatisticsDuringPeriod(series, s, e) ==
  IF s = e
  THEN IF zeroWidth = "day" THEN PointsFrom(series, s, s + 1) ELSE <<>>
  ELSE PointsFrom(series, s, e)

\* recorder/import_statistics: upsert the points of stats.
RECURSIVE ImportStatistics(_, _)
ImportStatistics(series, stats) ==
  IF stats = <<>> THEN series
  ELSE ImportStatistics(
         [series EXCEPT ![Head(stats).start] = Some(Head(stats).sum)],
         Tail(stats))

\* recorder/adjust_sum_statistics: add the adjustment to the sum of every
\* point starting at or after start_time.
AdjustSumStatistics(series, t, adj) ==
  [d \in Days |-> IF d >= t /\ series[d] # Null
                  THEN Some(series[d][1] + adj) ELSE series[d]]

\* ------------------------------------------------------------ the client
GetStatisticId(isCost) == IF isCost THEN "linky:prm_cost" ELSE "linky:prm"

SeriesOf(id) == IF id = GetStatisticId(TRUE) THEN cost ELSE energy

QueryMsg(id, s, e) ==
  [type |-> "recorder/statistics_during_period", statistic_id |-> id,
   start_time |-> s, end_time |-> e, stats |-> <<>>, adjustment |-> 0]

ImportMsg(id, stats) ==
  [type |-> "recorder/import_statistics", statistic_id |-> id,
   start_time |-> 0, end_time |-> 0, stats |-> stats, adjustment |-> 0]

AdjustMsg(id, date, value) ==
  [type |-> "recorder/adjust_sum_statistics", statistic_id |-> id,
   start_time |-> date, end_time |-> 0, stats |-> <<>>, adjustment |-> value]

\* sendMessage, up to the return of the promise: number the message, register
\* the once('message') listener (the pc the caller moves to) and send it.
WithId(message) ==
  [id |-> messageId, type |-> message.type,
   statistic_id |-> message.statistic_id, start_time |-> message.start_time,
   end_time |-> message.end_time, stats |-> message.stats,
   adjustment |-> message.adjustment]

SendMessage(message) ==
  /\ messageId' = messageId + 1
  /\ outbox' = Append(outbox, WithId(message))
  /\ sent' = Append(sent, [msg |-> WithId(message), hole |-> Len(holes)])

NoSend == UNCHANGED <<messageId, outbox, sent>>

\* Mutant of Settle: the listener resolves whatever the response says.
SettleAlways(response) == "resolve"

\* sendMessage, the listener: a response with success resolves the promise,
\* any other rejects it.
Settle(response) == IF response.success THEN "resolve" ELSE "reject"


\* findOldestStatistic, lines 194-201: the window of block k.
BlockStart(k) == Today - (k + 1) * BlockDays
BlockEnd(k) == Today - k * BlockDays

\* Mutant of AddDay: the day is not advanced.
AddDayNone(day) == day

\* cursor.add(1, 'day')
AddDay(day) == day + 1

\* Mutant of FirstPoint: the last point of the block.
LastPoint(points) == points[Len(points)]

\* findOldestStatistic, line 215: points[0]
FirstPoint(points) == points[1]

\* Mutant of NxtMsg: a window of two days.
NxtMsgTwoDays(id, c) == QueryMsg(id, AddDay(c), AddDay(AddDay(AddDay(c))))

\* lines 291-300: the window of the day after the cursor at day c.
NxtMsg(id, c) == QueryMsg(id, AddDay(c), AddDay(AddDay(c)))

\* Mutant of FetchLastSumMsg: the window of `day` itself.
FetchLastSumMsgSameDay(day, id) == QueryMsg(id, day, day + 1)

\* fetchLastSum, lines 222-228: the window of the day before `day`.
FetchLastSumMsg(day, id) == QueryMsg(id, day - 1, day)

\* fetchLastSum, lines 230-238: the sum of the last point, or null.
LastSumOf(points) ==
  IF Len(points) > 0 THEN Some(points[Len(points)].sum) ELSE Null

\* line 313: lastSum: !sum ? 0 : sum
OrZero(s) == IF ~Truthy(s) THEN 0 ELSE s[1]

\* Mutant of MakeHole: the hole ends one day late.
MakeHoleLate(from, to, s, c, next) ==
  [from |-> from, to |-> to + 1, lastSum |-> OrZero(s), lastCost |-> c,
   next |-> next]

\* line 313: the hole yielded.
MakeHole(from, to, s, c, next) ==
  [from |-> from, to |-> to, lastSum |-> OrZero(s), lastCost |-> c,
   next |-> next]

\* Mutant of InHole: the lower end of the hole is not tested.
InHoleNoFrom(pt, hole) == pt.date < hole.to

\* runFill, lines 24-27: the readings of the hole.
InHole(pt, hole) == ~(pt.date < hole.from) /\ pt.date < hole.to

HoleDataRaw(raw, hole) == SelectSeq(raw, LAMBDA pt : InHole(pt, hole))

\* format.ts, formatAsStatistics(data, lastSum): one point per reading, the
\* running sum seeded from lastSum.
RECURSIVE FormatAsStatistics(_, _)
FormatAsStatistics(data, lastSum) ==
  IF data = <<>> THEN <<>>
  ELSE LET s == lastSum + Head(data).value IN
       <<[start |-> Head(data).date, state |-> Head(data).value, sum |-> s]>>
       \o FormatAsStatistics(Tail(data), s)

\* cost.ts, computeCosts(stats, costs, lastCost): the cost of every point
\* a cost configuration applies to, the running sum seeded from lastCost.
RECURSIVE ComputeCosts(_, _, _)
ComputeCosts(stats, cfg, lastCost) ==
  IF stats = <<>> THEN <<>>
  ELSE IF Head(stats).start < cfg.start_date
       THEN ComputeCosts(Tail(stats), cfg, lastCost)
       ELSE LET c == Head(stats).state * cfg.price IN
            <<[start |-> Head(stats).start, state |-> c, sum |-> lastCost + c]>>
            \o ComputeCosts(Tail(stats), cfg, lastCost + c)

\* Mutant of Delta: the sum of the first point instead of the last.
DeltaFirstPoint(stats, last) == stats[1].sum - last

\* Mutant of Delta: the baseline is not subtracted.
DeltaNoBaseline(stats, last) == stats[Len(stats)].sum

\* runFill, lines 43 and 66: the adjustment of the points after the hole.
Delta(stats, last) == stats[Len(stats)].sum - last

\* Mutant of CostGate: the cost baseline is not tested.
CostGateConfigOnly(cfg, lastCost) == cfg # Null

\* runFill, line 53: config.costs && hole.lastCost
CostGate(cfg, lastCost) == cfg # Null /\ Truthy(lastCost)

Hole == holes[Len(holes)]

\* ---------------------------------------------------------------- Init
Rank(P, d) == Cardinality({p \in P : p <= d})

SeriesWith(P, unit) ==
  [d \in Days |-> IF d \in P THEN Some(unit * Rank(P, d)) ELSE Null]

\* One reading for each day of [from, to), oldest first.
Readings(from, to) ==
  [k \in 1 .. (to - from) |-> [date |-> from + k - 1, value |-> from + k]]

StartDays == {Null, Some(0), Some(1), Some(2)}
RawWindows == {<<0, Today>>, <<2, Today>>, <<0, 2>>, <<Today, Today>>}
CostUnits == {0, 2}
CostConfigs ==
  {Null, Some([price |-> 2, start_date |-> 0]),
         Some([price |-> 2, start_date |-> Today])}

Init ==
  /\ \E P \in SUBSET Days :
       /\ energy = SeriesWith(P, 10)
       /\ \E Q \in {{}, P}, u \in CostUnits : cost = SeriesWith(Q, u)
  /\ zeroWidth \in {"empty", "day"}
  /\ startDay \in StartDays
  /\ \E w \in RawWindows : rawData = Readings(w[1], w[2])
  /\ costs \in CostConfigs
  /\ conn = "open"
  /\ outbox = <<>>
  /\ inbox = <<>>
  /\ messageId = 0
  /\ sent = <<>>
  /\ pc = "start"
  /\ i = 0
  /\ cursor = 0
  /\ holeStart = 0
  /\ nxtStart = 0
  /\ sum = Null
  /\ holes = <<>>
  /\ emitted = <<>>
  /\ holeStats = <<>>
  /\ costStats = <<>>

\* ------------------------------------------------- missingDayRanges
\* Mutant of LoopHead: the scan goes on from the day after the cursor.
LoopHeadNextDay(c) ==
  IF c < Today
  THEN /\ SendMessage(QueryMsg(GetStatisticId(FALSE), AddDay(c), AddDay(c)))
       /\ pc' = "scan"
  ELSE NoSend /\ pc' = "done"

\* line 268: the test of the outer loop with the cursor at day c, and the
\* query of lines 269-278 when it passes; the generator returns otherwise,
\* which ends the for-await of runFill.
LoopHead(c) ==
  IF c < Today
  THEN SendMessage(QueryMsg(GetStatisticId(FALSE), c, c)) /\ pc' = "scan"
  ELSE NoSend /\ pc' = "done"

\* lines 288-300: one turn of the inner loop from the cursor at day c.
Extend(c) ==
  /\ cursor' = AddDay(c)
  /\ IF AddDay(c) > Today
     THEN LoopHead(AddDay(c))
     ELSE /\ SendMessage(NxtMsg(GetStatisticId(FALSE), c))
          /\ pc' = "extend"

\* A response is delivered to the listener of sendMessage.
Delivered == conn = "open" /\ inbox # <<>>

\* The awaited promise rejects: the generator throws, runFill rejects.
Reject == pc' = "rejected" /\ NoSend /\ UNCHANGED <<scan, fill>>

\* runFill is called: lines 250-263 of the generator, up to its first await.
Start ==
  /\ pc = "start"
  /\ UNCHANGED <<inputs, store, conn>>
  /\ UNCHANGED <<inbox, holeStart, nxtStart, sum, holes, emitted, fill>>
  /\ IF startDay # Null
     THEN /\ cursor' = startDay[1]
          /\ i' = i
          /\ LoopHead(startDay[1])
     ELSE /\ i' = NumBlocks - 1
          /\ cursor' = cursor
          /\ SendMessage(QueryMsg(GetStatisticId(FALSE),
                                  BlockStart(NumBlocks - 1),
                                  BlockEnd(NumBlocks - 1)))
          /\ pc' = "oldest"

\* findOldestStatistic, lines 211-218, and lines 258-263.
OnOldest ==
  /\ pc = "oldest" /\ Delivered
  /\ UNCHANGED <<inputs, store, conn>>
  /\ inbox' = Tail(inbox)
  /\ LET response == Head(inbox)
         points == response.result IN
     IF Settle(response) = "reject" THEN Reject
     ELSE /\ UNCHANGED <<holeStart, nxtStart, sum, holes, emitted, fill>>
          /\ IF Len(points) > 0
             THEN /\ i' = i
                  /\ cursor' = AddDay(FirstPoint(points).start)
                  /\ LoopHead(AddDay(FirstPoint(points).start))
             ELSE /\ i' = i - 1
                  /\ cursor' = cursor
                  /\ IF i - 1 >= 0
                     THEN /\ SendMessage(QueryMsg(GetStatisticId(FALSE),
                                                  BlockStart(i - 1),
                                                  BlockEnd(i - 1)))
                          /\ pc' = "oldest"
                     ELSE NoSend /\ pc' = "done"

\* lines 280-289 and 317-320: the answer for the day under the cursor.
OnScan ==
  /\ pc = "scan" /\ Delivered
  /\ UNCHANGED <<inputs, store, conn>>
  /\ inbox' = Tail(inbox)
  /\ LET response == Head(inbox)
         points == response.result IN
     IF Settle(response) = "reject" THEN Reject
     ELSE /\ UNCHANGED <<i, nxtStart, sum, holes, emitted, fill>>
          /\ IF Len(points) = 0
             THEN /\ holeStart' = cursor
                  /\ Extend(cursor)
             ELSE /\ holeStart' = holeStart
                  /\ cursor' = AddDay(cursor)
                  /\ LoopHead(AddDay(cursor))

\* lines 302-306: the answer for the next day of a hole.
OnExtend ==
  /\ pc = "extend" /\ Delivered
  /\ UNCHANGED <<inputs, store, conn>>
  /\ inbox' = Tail(inbox)
  /\ LET response == Head(inbox)
         nxtPoints == response.result IN
     IF Settle(response) = "reject" THEN Reject
     ELSE /\ UNCHANGED <<i, holeStart, sum, holes, emitted, fill>>
          /\ IF Len(nxtPoints) > 0
             THEN /\ nxtStart' = nxtPoints[1].start
                  /\ cursor' = cursor
                  /\ SendMessage(FetchLastSumMsg(holeStart,
                                                  GetStatisticId(FALSE)))
                  /\ pc' = "lastSum"
             ELSE /\ nxtStart' = nxtStart
                  /\ Extend(cursor)

\* lines 306-311: the energy baseline arrived, ask for the cost baseline.
OnLastSum ==
  /\ pc = "lastSum" /\ Delivered
  /\ UNCHANGED <<inputs, store, conn>>
  /\ inbox' = Tail(inbox)
  /\ LET response == Head(inbox) IN
     IF Settle(response) = "reject" THEN Reject
     ELSE /\ UNCHANGED <<i, cursor, holeStart, nxtStart, holes, emitted, fill>>
          /\ sum' = LastSumOf(response.result)
          /\ SendMessage(FetchLastSumMsg(holeStart, GetStatisticId(TRUE)))
          /\ pc' = "lastCost"

\* lines 308-313: the cost baseline arrived, the hole is yielded.
OnLastCost ==
  /\ pc = "lastCost" /\ Delivered
  /\ UNCHANGED <<inputs, store, conn>>
  /\ inbox' = Tail(inbox)
  /\ LET response == Head(inbox) IN
     IF Settle(response) = "reject" THEN Reject
     ELSE /\ UNCHANGED <<i, cursor, holeStart, nxtStart, sum, fill>>
          /\ holes' = Append(holes,
                             MakeHole(holeStart, cursor, sum,
                                      LastSumOf(response.result), nxtStart))
          /\ emitted' = Append(emitted, [energy |-> energy, cost |-> cost])
          /\ NoSend
          /\ pc' = "yielded"

\* ------------------------------------------------------------ runFill
\* lines 53-75, entered after the energy series is done: the cost series.
\* `continue` and the end of the loop body both resume the generator, which
\* breaks out of its inner loop and tests the outer one.
CostPart ==
  IF CostGate(costs, Hole.lastCost)
  THEN LET cs == ComputeCosts(holeStats, costs[1], ToNumber(Hole.lastCost)) IN
       /\ costStats' = cs
       /\ IF Len(cs) = 0
          THEN LoopHead(cursor)
          ELSE /\ SendMessage(ImportMsg(GetStatisticId(TRUE), cs))
               /\ pc' = "importCost"
  ELSE /\ costStats' = costStats
       /\ LoopHead(cursor)

\* Mutant of FillHole: the generator resumes before the hole is filled.
FillHoleLater ==
  /\ pc = "yielded"
  /\ UNCHANGED <<inputs, store, conn>>
  /\ UNCHANGED <<inbox, scan, costStats, holeStats>>
  /\ LoopHead(cursor)

\* lines 23-39: the body of the for-await for the hole just yielded.
FillHole ==
  /\ pc = "yielded"
  /\ UNCHANGED <<inputs, store, conn>>
  /\ UNCHANGED <<inbox, scan, costStats>>
  /\ LET holeDataRaw == HoleDataRaw(rawData, Hole) IN
     IF Len(holeDataRaw) = 0
     THEN /\ holeStats' = holeStats
          /\ LoopHead(cursor)
     ELSE /\ holeStats' = FormatAsStatistics(holeDataRaw, Hole.lastSum)
          /\ SendMessage(ImportMsg(GetStatisticId(FALSE),
                                   FormatAsStatistics(holeDataRaw, Hole.lastSum)))
          /\ pc' = "import"

\* Mutant of OnImport: the adjustment is sent without awaiting the import.
OnImportNoAwait ==
  /\ pc = "import" /\ conn = "open"
  /\ UNCHANGED <<inputs, store, conn>>
  /\ UNCHANGED <<inbox, scan, holeStats, costStats>>
  /\ SendMessage(AdjustMsg(GetStatisticId(FALSE), Hole.next,
                           Delta(holeStats, Hole.lastSum)))
  /\ pc' = "adjust"

\* lines 41-51: the import of the energy points is acknowledged.
OnImport ==
  /\ pc = "import" /\ Delivered
  /\ UNCHANGED <<inputs, store, conn>>
  /\ inbox' = Tail(inbox)
  /\ IF Settle(Head(inbox)) = "reject" THEN Reject
     ELSE /\ UNCHANGED <<scan, holeStats>>
          /\ IF Len(holeStats) > 0
             THEN /\ SendMessage(AdjustMsg(GetStatisticId(FALSE), Hole.next,
                                           Delta(holeStats, Hole.lastSum)))
                  /\ pc' = "adjust"
                  /\ costStats' = costStats
             ELSE CostPart

\* lines 51-64: the adjustment of the energy series is acknowledged.
OnAdjust ==
  /\ pc = "adjust" /\ Delivered
  /\ UNCHANGED <<inputs, store, conn>>
  /\ inbox' = Tail(inbox)
  /\ IF Settle(Head(inbox)) = "reject" THEN Reject
     ELSE /\ UNCHANGED <<scan, holeStats>>
          /\ CostPart

\* lines 64-74: the import of the cost points is acknowledged.
OnImportCost ==
  /\ pc = "importCost" /\ Delivered
  /\ UNCHANGED <<inputs, store, conn>>
  /\ inbox' = Tail(inbox)
  /\ IF Settle(Head(inbox)) = "reject" THEN Reject
     ELSE /\ UNCHANGED <<scan, fill>>
          /\ SendMessage(AdjustMsg(GetStatisticId(TRUE), Hole.next,
                                   Delta(costStats, ToNumber(Hole.lastCost))))
          /\ pc' = "adjustCost"

\* lines 74-76: the adjustment of the cost series is acknowledged.
OnAdjustCost ==
  /\ pc = "adjustCost" /\ Delivered
  /\ UNCHANGED <<inputs, store, conn>>
  /\ inbox' = Tail(inbox)
  /\ IF Settle(Head(inbox)) = "reject" THEN Reject
     ELSE /\ UNCHANGED <<scan, fill>>
          /\ LoopHead(cursor)

\* -------------------------------------------------- store and connection
\* The store handles the oldest request on the wire and acknowledges it.
StoreAnswer ==
  /\ conn = "open" /\ outbox # <<>>
  /\ LET req == Head(outbox)
         isCost == req.statistic_id = GetStatisticId(TRUE)
         series == SeriesOf(req.statistic_id)
         after ==
           IF req.type = "recorder/import_statistics"
           THEN ImportStatistics(series, req.stats)
           ELSE IF req.type = "recorder/adjust_sum_statistics"
           THEN AdjustSumStatistics(series, req.start_time, req.adjustment)
           ELSE series
         result ==
           IF req.type = "recorder/statistics_during_period"
           THEN StatisticsDuringPeriod(series, req.start_time, req.end_time)
           ELSE <<>> IN
     /\ outbox' = Tail(outbox)
     /\ inbox' = Append(inbox, [id |-> req.id, success |-> TRUE, result |-> result])
     /\ energy' = IF isCost THEN energy ELSE after
     /\ cost' = IF isCost THEN after ELSE cost
  /\ UNCHANGED <<inputs, conn, messageId, sent, scan, fill, pc>>

\* The store refuses the oldest request on the wire: nothing is written.
StoreError ==
  /\ conn = "open" /\ outbox # <<>>
  /\ outbox' = Tail(outbox)
  /\ inbox' = Append(inbox, [id |-> Head(outbox).id, success |-> FALSE,
                             result |-> <<>>])
  /\ UNCHANGED <<inputs, store, conn, messageId, sent, scan, fill, pc>>

Running == pc \notin {"start", "done", "rejected"}

\* connect, lines 41-43: the connection emits 'error'.  The handler rejects
\* the promise of connect(), which is settled since the authentication.
ConnError ==
  /\ conn = "open" /\ Running
  /\ conn' = "error"
  /\ UNCHANGED <<inputs, store, outbox, inbox, messageId, sent, scan, fill, pc>>

\* connect, lines 45-47: the connection closes.  The handler logs.
ConnClose ==
  /\ conn \in {"open", "error"} /\ Running
  /\ conn' = "closed"
  /\ UNCHANGED <<inputs, store, outbox, inbox, messageId, sent, scan, fill, pc>>

Next ==
  \/ Start
  \/ OnOldest
  \/ OnScan
  \/ OnExtend
  \/ OnLastSum
  \/ OnLastCost
  \/ FillHole
  \/ OnImport
  \/ OnAdjust
  \/ OnImportCost
  \/ OnAdjustCost
  \/ StoreAnswer
  \/ StoreError
  \/ ConnError
  \/ ConnClose

Spec == Init /\ [][Next]_vars

\* ---------------------------------------------------------------- claims
NoPoint(series, from, to) == \A d \in from .. (to - 1) : series[d] = Null

HasPoint(series, d) == d \in Days /\ series[d] # Null

\* The runs of days without a point that start right after a day with a
\* point and end right before a day with a point.
ClosedRuns(series) ==
  {r \in Days \X Days :
     /\ r[1] < r[2]
     /\ HasPoint(series, r[1] - 1)
     /\ NoPoint(series, r[1], r[2])
     /\ HasPoint(series, r[2])}

HoleRanges == {<<holes[k].from, holes[k].to>> : k \in 1 .. Len(holes)}

\* C1: without a start day, every hole yielded is a maximal run of days
\* without a point, closed by a day with a point, in the store as it is when
\* the hole is yielded; and a scan that ends over a store nothing was written
\* to has yielded exactly those runs.
C1_BoundaryCorrectness ==
  startDay = Null =>
    /\ \A k \in 1 .. Len(holes) :
         <<holes[k].from, holes[k].to>> \in ClosedRuns(emitted[k].energy)
    /\ (pc = "done" /\ rawData = <<>>) => HoleRanges = ClosedRuns(energy)

\* C2: the holes of one scan are disjoint and in increasing order.
C2_Disjoint ==
  \A k \in 1 .. (Len(holes) - 1) : holes[k].to <= holes[k + 1].from

C2_Witness ==
  /\ Len(holes) >= 2
  /\ holes[1].to < holes[2].from
  /\ \E m \in 1 .. Len(sent) :
       sent[m].msg.type = "recorder/adjust_sum_statistics"

\* The requests of the history, by kind.
IsImport(m, isCost) ==
  /\ sent[m].msg.type = "recorder/import_statistics"
  /\ sent[m].msg.statistic_id = GetStatisticId(isCost)

IsAdjust(m, isCost) ==
  /\ sent[m].msg.type = "recorder/adjust_sum_statistics"
  /\ sent[m].msg.statistic_id = GetStatisticId(isCost)

IsWrite(m) ==
  sent[m].msg.type \in {"recorder/import_statistics",
                        "recorder/adjust_sum_statistics"}

Sent == 1 .. Len(sent)

LastSumOfStats(stats) == stats[Len(stats)].sum

\* The hole k has readings: some supplied reading has from <= date < to.
Covered(k) ==
  \E j \in 1 .. Len(rawData) :
    holes[k].from <= rawData[j].date /\ rawData[j].date < holes[k].to

\* runFill is through with the hole k and nothing was refused.
Processed(k) ==
  /\ k \in 1 .. Len(holes)
  /\ pc # "rejected"
  /\ k < Len(holes) \/ pc \in {"scan", "extend", "lastSum", "lastCost", "done"}

\* C3: the request that follows an import of energy points is the one
\* adjustment of the energy series for its hole, at hole.next, by (sum of the
\* last imported point) - hole.lastSum; the adjustment is sent when the store
\* holds the imported points.
C3_AdjustArithmetic ==
  /\ \A m \in Sent :
       (IsImport(m, FALSE) /\ Len(sent[m].msg.stats) > 0 /\ m < Len(sent)) =>
            /\ IsAdjust(m + 1, FALSE)
            /\ sent[m + 1].hole = sent[m].hole
            /\ sent[m + 1].msg.start_time = holes[sent[m].hole].next
            /\ sent[m + 1].msg.adjustment =
                 LastSumOfStats(sent[m].msg.stats) - holes[sent[m].hole].lastSum
  /\ \A n \in Sent : IsAdjust(n, FALSE) =>
       /\ n > 1 /\ IsImport(n - 1, FALSE)
       /\ \A o \in Sent :
            (IsAdjust(o, FALSE) /\ sent[o].hole = sent[n].hole) => o = n
       /\ (n = Len(sent) /\ outbox # <<>>) =>
            \A j \in 1 .. Len(sent[n - 1].msg.stats) :
              energy[sent[n - 1].msg.stats[j].start]
                = Some(sent[n - 1].msg.stats[j].sum)

C3_Witness ==
  \E n \in Sent :
    /\ IsAdjust(n, FALSE)
    /\ n < Len(sent)
    /\ holes[sent[n].hole].lastSum > 0
    /\ sent[n].msg.adjustment > 0
    /\ Len(sent[n - 1].msg.stats) > 1

\* C4: the lastSum of every hole is the sum the energy series holds for the
\* day before hole.from when the hole is yielded, and 0 when it holds none.
C4_EnergyBaseline ==
  \A k \in 1 .. Len(holes) :
    holes[k].lastSum =
      IF HasPoint(emitted[k].energy, holes[k].from - 1)
      THEN emitted[k].energy[holes[k].from - 1][1]
      ELSE 0

C4_Witness ==
  /\ \E k \in 1 .. Len(holes) :
       /\ ~HasPoint(emitted[k].energy, holes[k].from - 1)
       /\ holes[k].lastSum = 0
  /\ \E k \in 1 .. Len(holes) :
       /\ HasPoint(emitted[k].energy, holes[k].from - 1)
       /\ holes[k].lastSum > 0
       /\ emitted[k].energy # emitted[1].energy

\* C5: the lastCost of every hole is a number: the sum the cost series holds
\* for the day before hole.from, and 0 when it holds none.
C5_CostBaselineTotal ==
  \A k \in 1 .. Len(holes) :
    /\ holes[k].lastCost # Null
    /\ holes[k].lastCost =
         IF HasPoint(emitted[k].cost, holes[k].from - 1)
         THEN emitted[k].cost[holes[k].from - 1]
         ELSE Some(0)

\* C6: a hole without readings gets no import and no adjustment, the step
\* of runFill that skips it writes nothing to the store and hands control
\* back to the scanner at the cursor the hole ended on.
C6_Skip ==
  pc = "yielded" /\ ~Covered(Len(holes)) =>
    /\ energy' = energy /\ cost' = cost
    /\ holes' = holes /\ cursor' = cursor
    /\ pc' \in {"yielded", "scan", "done"}
    /\ \A m \in 1 .. Len(sent') : m > Len(sent) => ~IsWrite(m)'

C6_NoWrites ==
  \A m \in Sent :
    (IsWrite(m) /\ sent[m].hole >= 1) => Covered(sent[m].hole)

C6_NoOpOnEmptyCoverage == []C6_NoWrites /\ [][C6_Skip]_vars

C6_Witness ==
  /\ Len(holes) >= 2
  /\ ~Covered(1)
  /\ Covered(2)
  /\ \E m \in Sent : IsAdjust(m, FALSE) /\ sent[m].hole = 2

\* What runFill has to write for the hole k: the points of its readings.
ExpectedStats(k) ==
  FormatAsStatistics(
    SelectSeq(rawData, LAMBDA pt : holes[k].from <= pt.date /\ pt.date < holes[k].to),
    holes[k].lastSum)

ExpectedCosts(k) ==
  ComputeCosts(ExpectedStats(k), costs[1], ToNumber(holes[k].lastCost))

\* The import of `stats` and the adjustment that goes with it were issued
\* for the hole k, in this order, one right after the other.
Wrote(k, isCost, stats, baseline) ==
  \E m \in Sent :
    /\ m < Len(sent)
    /\ IsImport(m, isCost) /\ sent[m].hole = k
    /\ sent[m].msg.stats = stats
    /\ IsAdjust(m + 1, isCost) /\ sent[m + 1].hole = k
    /\ sent[m + 1].msg.start_time = holes[k].next
    /\ sent[m + 1].msg.adjustment = LastSumOfStats(stats) - baseline

\* C7: for a hole whose lastCost is null nothing is written to the cost
\* series; if it has readings, the energy points are imported and the energy
\* series adjusted as for any other hole.
C7_CostIndependence ==
  \A k \in 1 .. Len(holes) : holes[k].lastCost = Null =>
    /\ \A m \in Sent :
         (IsWrite(m) /\ sent[m].hole = k) =>
           sent[m].msg.statistic_id = GetStatisticId(FALSE)
    /\ (Covered(k) /\ Processed(k)) =>
         Wrote(k, FALSE, ExpectedStats(k), holes[k].lastSum)

C7_Witness ==
  \E k \in 1 .. Len(holes) :
    /\ holes[k].lastCost = Null
    /\ costs # Null
    /\ Len(ExpectedCosts(k)) > 0
    /\ Processed(k)
    /\ Wrote(k, FALSE, ExpectedStats(k), holes[k].lastSum)

\* C8: with a cost configuration, a lastCost that is not null (0 included)
\* and readings that give cost points, the cost points are imported and the
\* cost series adjusted at hole.next by (sum of the last cost point) -
\* hole.lastCost.
C8_CostGating ==
  \A k \in 1 .. Len(holes) :
    ( /\ Processed(k)
      /\ costs # Null
      /\ holes[k].lastCost # Null
      /\ Len(ExpectedCosts(k)) > 0 ) =>
        Wrote(k, TRUE, ExpectedCosts(k), holes[k].lastCost[1])

\* C9: when the store refuses an import or an adjustment, runFill rejects in
\* the step that receives the refusal, without another request; and once it
\* has rejected no request is issued, no hole is yielded and the store keeps
\* what was written before.
Writing == pc \in {"import", "adjust", "importCost", "adjustCost"}

C9_Refused ==
  (Writing /\ Delivered /\ ~Head(inbox).success /\ inbox' # inbox) =>
    /\ pc' = "rejected"
    /\ sent' = sent /\ holes' = holes
    /\ energy' = energy /\ cost' = cost

C9_Stopped ==
  pc = "rejected" =>
    /\ pc' = "rejected"
    /\ sent' = sent /\ holes' = holes /\ outbox' = outbox
    /\ energy' = energy /\ cost' = cost

C9_WriteFailure == [][C9_Refused /\ C9_Stopped]_vars

C9_Witness ==
  /\ pc = "rejected"
  /\ Len(holes) >= 2
  /\ IsWrite(Len(sent)) /\ sent[Len(sent)].hole = 2
  /\ Wrote(1, FALSE, ExpectedStats(1), holes[1].lastSum)
  /\ \E j \in 1 .. Len(ExpectedStats(1)) :
       energy[ExpectedStats(1)[j].start] # Null

\* C10: the connection is never lost with a request of the scan or of the
\* backfill still waiting for its answer: the handlers of 'error' and
\* 'close' reject it.
C10_Cancellation == ~(conn # "open" /\ Running /\ pc # "yielded")

\* The existence queries of the outer loop: the windows [cursor, cursor].
IsScanQuery(m) ==
  /\ sent[m].msg.type = "recorder/statistics_during_period"
  /\ sent[m].msg.start_time = sent[m].msg.end_time

\* The cursor advances strictly from one turn of the outer loop to the next
\* and every turn starts before today.
C11_Advance ==
  \A m \in Sent : IsScanQuery(m) =>
    /\ sent[m].msg.start_time < Today
    /\ \A n \in Sent :
         (IsScanQuery(n) /\ m < n) =>
           sent[m].msg.start_time < sent[n].msg.start_time

\* The scan has ended: the cursor reached today, or no oldest point exists.
C11_Stop ==
  pc = "done" => (cursor >= Today \/ (startDay = Null /\ i < 0))

Ended == pc \in {"done", "rejected"}

\* The client resumes on every response, the store handles every request.
FairSpec ==
  /\ Spec
  /\ WF_vars(Start \/ OnOldest \/ OnScan \/ OnExtend \/ OnLastSum
               \/ OnLastCost \/ FillHole \/ OnImport \/ OnAdjust
               \/ OnImportCost \/ OnAdjustCost)
  /\ WF_vars(StoreAnswer \/ StoreError)

\* C11: the cursor never decreases, advances strictly on every turn of the
\* outer loop, the scan stops once the cursor is at or past today, and with
\* the connection up and every request handled the run ends.
C11_Termination ==
  /\ [](C11_Advance /\ C11_Stop)
  /\ [][cursor' >= cursor]_vars
  /\ ([](conn = "open") => <>Ended)

C11_Witness ==
  /\ pc = "done"
  /\ Len(holes) >= 2
  /\ Cardinality({m \in Sent : IsScanQuery(m)}) >= 3

\* The series has a point for every day from its oldest point to yesterday.
Gapless(series) ==
  /\ \E d \in Days : series[d] # Null
  /\ \A p \in Days, d \in Days :
       (series[p] # Null /\ p <= d /\ d <= Today - 1) => series[d] # Null

\* The energy series as runFill found it: nothing is written before the
\* first hole is yielded.
EnergyAtCall == IF holes = <<>> THEN energy ELSE emitted[1].energy

\* C12: scanning, without a start day, an energy series that has a point for
\* every day from its oldest point to yesterday yields no hole, and runFill
\* writes nothing.
C12_NoFalseHoles ==
  (startDay = Null /\ Gapless(EnergyAtCall)) =>
    /\ holes = <<>>
    /\ \A m \in Sent : ~IsWrite(m)

\* C13: every hole yielded has from < to, the store holds a point for the
\* day `to` when the hole is yielded, next is the start of that point, and the
\* closing day is a day the scan may look at.
C13_ClosedHoles ==
  \A k \in 1 .. Len(holes) :
    /\ holes[k].from < holes[k].to
    /\ HasPoint(emitted[k].energy, holes[k].to)
    /\ holes[k].next = holes[k].to

C13_Witness ==
  /\ pc = "done"
  /\ Len(holes) >= 1
  /\ Hole.to < Today - 1
  /\ energy[Today - 1] = Null
  /\ energy[Today] = Null
  /\ Hole.to - Hole.from >= 2

\* The days findOldestStatistic looks at, and those with a point.
HorizonDays == {d \in Days : BlockStart(NumBlocks - 1) <= d /\ d < Today}

HorizonPoints == {d \in HorizonDays : energy[d] # Null}

\* findOldestStatistic has returned to a scan without a start day.
Located ==
  /\ startDay = Null
  /\ pc \notin {"start", "oldest"}
  /\ ~(pc = "rejected" /\ Len(sent) = NumBlocks - i)

\* C14: findOldestStatistic returns the oldest point of the horizon, and null
\* exactly when the horizon has no point; the scan starts the day after that
\* point, and there is no hole and no scan at all on null.
C14_OldestPoint ==
  Located =>
    IF HorizonPoints = {}
    THEN i < 0 /\ pc = "done" /\ holes = <<>> /\ Len(sent) = NumBlocks
    ELSE LET oldest == CHOOSE d \in HorizonPoints :
                         \A e \in HorizonPoints : d <= e IN
         /\ i >= 0
         /\ BlockStart(i) <= oldest /\ oldest < BlockEnd(i)
         /\ Len(sent) >= NumBlocks - i
         /\ Len(sent) > NumBlocks - i =>
              /\ IsScanQuery(NumBlocks - i + 1)
              /\ sent[NumBlocks - i + 1].msg.start_time = oldest + 1
         /\ Len(sent) = NumBlocks - i => (pc = "done" /\ oldest + 1 >= Today)
         /\ \A k \in 1 .. Len(holes) : holes[k].from > oldest

C14_Witness ==
  /\ Located
  /\ i = 0
  /\ Cardinality(HorizonPoints) >= 2
  /\ energy[Today] # Null
  /\ Len(holes) >= 1
  /\ pc = "done"

C14_WitnessNull ==
  /\ Located
  /\ HorizonPoints = {}
  /\ energy[Today] # Null

\* The cumulative sums of the series do not decrease in time.
Monotone(series) ==
  \A d \in Days, e \in Days :
    (d < e /\ series[d] # Null /\ series[e] # Null) =>
      series[d][1] <= series[e][1]

\* C15: the sums of the energy series, which do not decrease in time when
\* runFill is called, do not decrease in time when it has completed (the
\* readings of every run are positive).
C15_MonotoneSums ==
  (pc = "done" /\ Monotone(EnergyAtCall)) => Monotone(energy)

\* A promise of sendMessage is pending.
Awaiting ==
  pc \in {"oldest", "scan", "extend", "lastSum", "lastCost", "import",
          "adjust", "importCost", "adjustCost"}

OnWire ==
  {outbox[n].id : n \in 1 .. Len(outbox)} \cup
  {inbox[n].id : n \in 1 .. Len(inbox)}

\* At most one request or response is on the wire, it belongs to the last
\* request sent, and a promise is pending for it.
C16_OneOnWire ==
  /\ Len(outbox) + Len(inbox) <= 1
  /\ OnWire # {} => Awaiting
  /\ \A id \in OnWire : id = sent[Len(sent)].msg.id
  /\ \A m \in 1 .. Len(sent), n \in 1 .. Len(sent) :
       m < n => sent[m].msg.id < sent[n].msg.id

\* A request is sent when no request is on the wire and the response of the
\* previous one, if any, has been taken by its listener.
C16_SendAfterSettle ==
  Len(sent') > Len(sent) =>
    /\ outbox = <<>>
    /\ inbox' = <<>>
    /\ Len(sent) > 0 => (inbox # <<>> \/ pc = "yielded")
    /\ Len(sent') = Len(sent) + 1
    /\ outbox' = <<sent'[Len(sent')].msg>>

\* C16: at most one request awaits its response in every state; a request
\* is sent only after the previous one is settled, so every response goes to
\* the request that caused it.
C16_SingleInFlight == []C16_OneOnWire /\ [][C16_SendAfterSettle]_vars

C16_Witness ==
  /\ pc = "adjustCost"
  /\ Len(holes) >= 2
  /\ inbox # <<>>
  /\ inbox[1].id = sent[Len(sent)].msg.id
  /\ Len(sent) >= 8

\* The request m of the history is a range query sent after the hole k was
\* yielded and before the next one was.
IsQueryAfter(m, k) ==
  /\ sent[m].hole = k
  /\ sent[m].msg.type = "recorder/statistics_during_period"

IsWriteFor(m, k, isCost) ==
  /\ sent[m].hole = k
  /\ IsWrite(m)
  /\ sent[m].msg.statistic_id = GetStatisticId(isCost)

ApplyWrite(series, msg) ==
  IF msg.type = "recorder/import_statistics"
  THEN ImportStatistics(series, msg.stats)
  ELSE AdjustSumStatistics(series, msg.start_time, msg.adjustment)

\* The series after the writes runFill sent for the hole k, from request m on.
RECURSIVE ApplyWrites(_, _, _, _)
ApplyWrites(series, m, k, isCost) ==
  IF m > Len(sent) THEN series
  ELSE ApplyWrites(IF IsWriteFor(m, k, isCost)
                   THEN ApplyWrite(series, sent[m].msg) ELSE series,
                   m + 1, k, isCost)

\* The baseline fetchLastSum reads from a series for a hole starting at from.
BaselineIn(series, from) == LastSumOf(PointsFrom(series, from - 1, from))

\* C17: a range query that follows the yield of a hole follows every import
\* and adjustment of that hole, which is imported and adjusted before it when
\* it has readings; the store the next hole is yielded over is the store of
\* the previous yield with those writes applied, and the lastSum and lastCost
\* of the next hole are read from it.
C17_PullOrdering ==
  /\ \A n \in Sent : \A k \in 1 .. Len(holes) :
       IsQueryAfter(n, k) =>
         /\ \A m \in Sent : (IsWriteFor(m, k, FALSE) \/ IsWriteFor(m, k, TRUE))
                                => m < n
         /\ Covered(k) =>
              \E m \in 1 .. (n - 2) :
                /\ IsWriteFor(m, k, FALSE) /\ IsImport(m, FALSE)
                /\ IsWriteFor(m + 1, k, FALSE) /\ IsAdjust(m + 1, FALSE)
  /\ \A k \in 1 .. (Len(holes) - 1) :
       /\ emitted[k + 1].energy = ApplyWrites(emitted[k].energy, 1, k, FALSE)
       /\ emitted[k + 1].cost = ApplyWrites(emitted[k].cost, 1, k, TRUE)
       /\ holes[k + 1].lastSum
            = OrZero(BaselineIn(emitted[k + 1].energy, holes[k + 1].from))
       /\ holes[k + 1].lastCost
            = BaselineIn(emitted[k + 1].cost, holes[k + 1].from)

\* The second hole starts after a point the first adjustment moved, in both
\* series.
C17_Witness ==
  /\ Len(holes) >= 2
  /\ \E m \in Sent :
       /\ IsAdjust(m, FALSE) /\ sent[m].hole = 1
       /\ sent[m].msg.adjustment > 0
       /\ HasPoint(emitted[1].energy, holes[2].from - 1)
       /\ holes[2].lastSum
            = emitted[1].energy[holes[2].from - 1][1] + sent[m].msg.adjustment
  /\ \E m \in Sent :
       /\ IsAdjust(m, TRUE) /\ sent[m].hole = 1
       /\ sent[m].msg.adjustment > 0
       /\ HasPoint(emitted[1].cost, holes[2].from - 1)
       /\ holes[2].lastCost
            = Some(emitted[1].cost[holes[2].from - 1][1] + sent[m].msg.adjustment)

\* The first range query sent after the hole k was yielded.
FirstQueryAfter(n, k) ==
  /\ IsQueryAfter(n, k)
  /\ \A m \in 1 .. (n - 1) : ~IsQueryAfter(m, k)

\* runFill holds the hole last yielded.
Filling ==
  pc \in {"yielded", "import", "adjust", "importCost", "adjustCost"}

\* C18 as stated: once a hole is yielded the scan goes on from the day after
\* its closing day `to`, and no existence query is sent for `to` again.
C18_NotReexamined ==
  \A k \in 1 .. Len(holes) : \A n \in Sent :
    (sent[n].hole >= k /\ IsScanQuery(n)) =>
      sent[n].msg.start_time > holes[k].to

\* C18, amended: when a hole is yielded the cursor is on its closing day
\* `to` and stays there while the hole is filled; with `to` before today the
\* first range query after the hole is the existence query for `to` itself
\* (start_time = end_time = to), and with `to` on today the scan ends
\* without a query.
C18_ClosingDayQueried ==
  /\ Filling => cursor = Hole.to
  /\ \A k \in 1 .. Len(holes) :
       /\ \A n \in Sent :
            FirstQueryAfter(n, k) =>
              /\ IsScanQuery(n)
              /\ sent[n].msg.start_time = holes[k].to
              /\ holes[k].to < Today
       /\ (Processed(k) /\ holes[k].to < Today) =>
            \E n \in Sent : FirstQueryAfter(n, k)
       /\ (Processed(k) /\ holes[k].to >= Today) =>
            /\ pc = "done"
            /\ \A n \in Sent : ~IsQueryAfter(n, k)

\* A filled hole closed before today was followed by the query for its
\* closing day, and the scan went on.
C18_Witness ==
  /\ Len(holes) >= 1
  /\ holes[1].to < Today
  /\ \E m \in Sent : IsWriteFor(m, 1, FALSE)
  /\ \E n \in Sent :
       /\ FirstQueryAfter(n, 1)
       /\ sent[n].msg.start_time = holes[1].to
       /\ n < Len(sent)

\* A hole closed on today ended the scan.
C18_WitnessToday ==
  /\ Len(holes) >= 1
  /\ Hole.to = Today
  /\ pc = "done"

\* C19: while a hole is extended the scanner stops without a query when the
\* advanced cursor is on or after today: no range query is sent for a window
\* starting on or after today, and no hole is closed by the point of today.
C19_ScanBoundary ==
  /\ pc = "extend" => cursor < Today
  /\ \A n \in Sent :
       sent[n].msg.type = "recorder/statistics_during_period" =>
         sent[n].msg.start_time < Today
  /\ \A k \in 1 .. Len(holes) : holes[k].to < Today

\* The store has acknowledged the adjustment of the energy series for the
\* hole runFill holds: the import and the adjustment of the hole are done.
EnergyAdjusted ==
  /\ pc = "adjust"
  /\ inbox # <<>>
  /\ inbox[1].success

\* C20: when the import and the adjustment of a hole are done, the imported
\* points all start in [hole.from, hole.to); the difference between the sum
\* stored at hole.next and the sum of the last imported point is the
\* difference between the sum at hole.next and hole.lastSum before the fill;
\* every point at or after hole.next is shifted by that one delta, and no
\* point outside the import is written otherwise.
C20_PostHoleConsistency ==
  EnergyAdjusted =>
    LET old == emitted[Len(holes)].energy
        stats == sent[Len(sent) - 1].msg.stats
        delta == sent[Len(sent)].msg.adjustment
        imported == {stats[j].start : j \in 1 .. Len(stats)} IN
    /\ IsImport(Len(sent) - 1, FALSE) /\ Len(stats) > 0
    /\ \A d \in imported : Hole.from <= d /\ d < Hole.to
    /\ HasPoint(old, Hole.next) /\ HasPoint(energy, Hole.next)
    /\ energy[Hole.next][1] - LastSumOfStats(stats)
         = old[Hole.next][1] - Hole.lastSum
    /\ \A d \in Days :
         IF d >= Hole.next
         THEN energy[d] = IF old[d] = Null THEN Null
                          ELSE Some(old[d][1] + delta)
         ELSE IF d \in imported
         THEN \E j \in 1 .. Len(stats) :
                stats[j].start = d /\ energy[d] = Some(stats[j].sum)
         ELSE energy[d] = old[d]

C20_Witness ==
  /\ EnergyAdjusted
  /\ Len(sent[Len(sent) - 1].msg.stats) >= 2
  /\ Hole.lastSum > 0
  /\ Hole.next < Today
  /\ \E d \in Days : d > Hole.next /\ energy[d] # Null

====
